---- MODULE Spec2Model ----
(***************************************************************************)
(* Model of app.py: the CGCS2000 -> WGS84 -> GCJ-02 coordinate pipeline,   *)
(* the spreadsheet-to-points loop and the Streamlit session handling.      *)
(*                                                                         *)
(* Numbers.  Python floats are modelled in fixed point:                    *)
(*   - a coordinate is an integer number of hundredths of an arc-second    *)
(*     (DEG per degree), so the rectangle edges 73.66, 135.05, 3.86 and    *)
(*     53.55 are exact;                                                    *)
(*   - the corrections d_lat/d_lng, sines, cosines and square roots are    *)
(*     held in ten-thousandths (FP per unit);                              *)
(*   - magic and EE are held in units of 10^-8 (FP2 per unit).             *)
(* Every product is formed by MulDiv, so that it stays inside 32 bits.     *)
(* A Python call that may raise returns a record [exc, v]: exc = NoExc     *)
(* when it returned v, and the name of the exception otherwise.            *)
(***************************************************************************)
EXTENDS Integers, Sequences, FiniteSets, TLC

\* ------------------------------------------------------------------------
\* Fixed-point scales (units of the model, not program constants)
\* ------------------------------------------------------------------------
DEG == 60 * 60 * 100
FP == 100 * 100
FP2 == FP * FP

NoExc == "none"

Ok(x) == [exc |-> NoExc, v |-> x]
Raise(e) == [exc |-> e, v |-> 0]

\* abs() of Python
abs(x) == IF x < 0 THEN -x ELSE x

\* floor(a * b / d) without forming a * b, for d > 0 and |d * b| < 2^31
MulDiv(a, b, d) == (a \div d) * b + ((a % d) * b) \div d

\* floor of the square root of n, 0 <= n < 2^31: its two digits in base 256
ISqrt(n) ==
    LET hi == Cardinality({k \in 1..181 : (256 * k) * (256 * k) <= n})
        lo == Cardinality({j \in 1..255 : /\ 256 * hi + j <= 46340
                                          /\ (256 * hi + j) * (256 * hi + j) <= n})
    IN 256 * hi + lo

\* math.sqrt: ValueError ("math domain error") on a negative argument
math_sqrt(x) == IF x < 0 THEN Raise("ValueError") ELSE Ok(ISqrt(x))

\* PI = 3.1415926535897932384626, in units of 1/FP
PI == 31416

\* sin(theta) for theta in units of 1/FP radian, 0 <= theta <= PI/2, by the
\* series theta - theta^3/3! + theta^5/5! - theta^7/7!; in units of 1/FP
SinSeries(theta) ==
    LET t  == (theta * theta) \div FP
        h3 == FP - (t \div 42)
        h2 == FP - ((t * h3) \div (20 * FP))
        h1 == FP - ((t * h2) \div (6 * FP))
    IN (theta * h1) \div FP

\* math.sin(num / den * PI) in units of 1/FP, den > 0: the phase is reduced
\* to the first quadrant exactly, the angle is formed with the fraction
\* brought down to 16 bits, and the series is summed
SinPi(num, den) ==
    LET p    == num % (2 * den)
        neg  == p >= den
        q    == IF neg THEN p - den ELSE p
        r    == IF 2 * q > den THEN den - q ELSE q
        c    == den \div 65536 + 1
        s    == SinSeries((PI * (r \div c)) \div (den \div c))
    IN IF neg THEN -s ELSE s

\* math.cos(num / den * PI) = sin((num / den + 1/2) * PI)
CosPi(num, den) == SinPi(2 * num + den, 2 * den)

\* A = 6378245.0, in metres
A == 6378245

\* EE = 0.00669342162296594323, in units of 1/FP2
EE == 669342

\* a slip: math.sqrt(lng), the abs() forgotten
SqrtOfSigned(lng) ==
    LET s == math_sqrt(lng * 100)
    IN IF s.exc # NoExc THEN s ELSE Ok((s.v * 100) \div 60)

\* line 25: math.sqrt(abs(lng)), lng an offset in units of 1/DEG degree;
\* the result is in units of 1/FP
_transform_lat_sqrt(lng) ==
    LET s == math_sqrt(abs(lng) * 100)
    IN IF s.exc # NoExc THEN s ELSE Ok((s.v * 100) \div 60)

\* line 33: math.sqrt(abs(lng))
_transform_lng_sqrt(lng) ==
    LET s == math_sqrt(abs(lng) * 100)
    IN IF s.exc # NoExc THEN s ELSE Ok((s.v * 100) \div 60)

\* x * y for two offsets in units of 1/DEG degree, in units of 1/FP: each
\* factor is split into whole degrees and the rest
DegMul(x, y) ==
    LET xd == x \div DEG
        xr == x % DEG
        yd == y \div DEG
        yr == y % DEG
    IN FP * xd * yd + (xd * yr + xr * yd) \div (DEG \div FP)
       + ((xr \div 600) * (yr \div 600)) \div (DEG \div FP)

\* k * x for an offset x in units of 1/DEG degree, in units of 1/FP
DegLin(k, x) == (k * x) \div (DEG \div FP)

_transform_lat(lng, lat) ==
    LET s == _transform_lat_sqrt(lng)
    IN IF s.exc # NoExc THEN s
       ELSE Ok(  (-100) * FP + DegLin(2, lng) + DegLin(3, lat)
               + (2 * DegMul(lat, lat)) \div 10 + DegMul(lng, lat) \div 10
               + (2 * s.v) \div 10
               + ((20 * SinPi(6 * lng, DEG) + 20 * SinPi(2 * lng, DEG)) * 2) \div 3
               + ((20 * SinPi(lat, DEG) + 40 * SinPi(lat, 3 * DEG)) * 2) \div 3
               + ((160 * SinPi(lat, 12 * DEG) + 320 * SinPi(lat, 30 * DEG)) * 2) \div 3)

_transform_lng(lng, lat) ==
    LET s == _transform_lng_sqrt(lng)
    IN IF s.exc # NoExc THEN s
       ELSE Ok(  300 * FP + DegLin(1, lng) + DegLin(2, lat)
               + DegMul(lng, lng) \div 10 + DegMul(lng, lat) \div 10
               + s.v \div 10
               + ((20 * SinPi(6 * lng, DEG) + 20 * SinPi(2 * lng, DEG)) * 2) \div 3
               + ((20 * SinPi(lng, DEG) + 40 * SinPi(lng, 3 * DEG)) * 2) \div 3
               + ((150 * SinPi(lng, 12 * DEG) + 300 * SinPi(lng, 30 * DEG)) * 2) \div 3)

\* hundredths of a degree, the precision of the rectangle's literals
CENTI == DEG \div 100

\* a / d: ZeroDivisionError on d = 0
PyDiv(a, d) ==
    IF d = 0 THEN Raise("ZeroDivisionError")
    ELSE IF d < 0 THEN Ok((-a) \div (-d)) ELSE Ok(a \div d)

\* a slip: the west edge taken as inside (73.66 <= lng)
OutOfChinaInclusive(lng, lat) ==
    ~(7366 * CENTI <= lng /\ lng < 13505 * CENTI /\ 386 * CENTI < lat /\ lat < 5355 * CENTI)

\* not (73.66 < lng < 135.05 and 3.86 < lat < 53.55)
_out_of_china(lng, lat) ==
    ~(7366 * CENTI < lng /\ lng < 13505 * CENTI /\ 386 * CENTI < lat /\ lat < 5355 * CENTI)

\* what a conversion hands back: the pair it returned, or the exception
Return(lng, lat) == [exc |-> NoExc, lng |-> lng, lat |-> lat]
Raised(e) == [exc |-> e, lng |-> 0, lat |-> 0]

\* a slip: the operands of the subtraction exchanged (EE * sin^2 - 1)
MagicExchanged(lat) ==
    LET m == SinPi(lat, 180 * DEG)
    IN ((EE \div 10) * ((m * m) \div FP)) \div 1000 - FP2

\* lines 56-58: magic = 1 - EE * sin(rad_lat)^2, in units of 1/FP2
Magic(lat) ==
    LET m == SinPi(lat, 180 * DEG)
    IN FP2 - ((EE \div 10) * ((m * m) \div FP)) \div 1000

\* line 61: (A * (1 - EE)) / (magic * sqrt_magic) * PI, in metres
\* (magic in units of 1/FP2, sqrt_magic in units of 1/FP)
DenLat(magic, sqrt_magic) ==
    LET a1 == A - ((A \div 1000) * (EE \div 10)) \div FP
        ms == ((magic \div FP) * sqrt_magic) \div FP
    IN IF ms <= 0 THEN PyDiv(a1, ms)
       ELSE Ok(MulDiv(MulDiv(a1, FP, ms), PI, FP))

\* line 62: A / sqrt_magic * math.cos(rad_lat) * PI, in metres
DenLng(lat, sqrt_magic) ==
    IF sqrt_magic <= 0 THEN PyDiv(A, sqrt_magic)
    ELSE Ok(MulDiv(MulDiv(MulDiv(A, FP, sqrt_magic), CosPi(lat, 180 * DEG), FP), PI, FP))

\* lines 61-62: (d * 180.0) / den, d in units of 1/FP and den in metres;
\* the quotient is in units of 1/DEG degree
ToDegrees(d, den) ==
    IF abs(den) < 80 THEN PyDiv(d * 180 * (DEG \div FP), den)
    ELSE PyDiv(d * 81, den \div 80)

\* lines 64-67
Offset(lng, lat, d_lat, d_lng) ==
    IF d_lat.exc # NoExc THEN Raised(d_lat.exc)
    ELSE IF d_lng.exc # NoExc THEN Raised(d_lng.exc)
    ELSE Return(lng + d_lng.v, lat + d_lat.v)

\* lines 61-62, the two divisions
Divide(lng, lat, d_lat, d_lng, den_lat, den_lng) ==
    IF den_lat.exc # NoExc THEN Raised(den_lat.exc)
    ELSE IF den_lng.exc # NoExc THEN Raised(den_lng.exc)
    ELSE Offset(lng, lat, ToDegrees(d_lat, den_lat.v), ToDegrees(d_lng, den_lng.v))

\* lines 59-62
Scale(lng, lat, d_lat, d_lng, magic, sqrt_magic) ==
    IF sqrt_magic.exc # NoExc THEN Raised(sqrt_magic.exc)
    ELSE Divide(lng, lat, d_lat, d_lng,
                DenLat(magic, sqrt_magic.v), DenLng(lat, sqrt_magic.v))

\* lines 53-62, with d_lat and d_lng of lines 53-54 and magic of line 58
Corrected(lng, lat, d_lat, d_lng, magic) ==
    IF d_lat.exc # NoExc THEN Raised(d_lat.exc)
    ELSE IF d_lng.exc # NoExc THEN Raised(d_lng.exc)
    ELSE Scale(lng, lat, d_lat.v, d_lng.v, magic, math_sqrt(magic))

\* lines 53-67: the offset branch of wgs84_to_gcj02
Distort(lng, lat) ==
    Corrected(lng, lat,
              _transform_lat(lng - 105 * DEG, lat - 35 * DEG),
              _transform_lng(lng - 105 * DEG, lat - 35 * DEG),
              Magic(lat))

\* the source-datum points handed to the conversion, <<lng, lat>>: the
\* Beijing reference point, a point west of 105 degrees, a point far from
\* the rectangle, and on each edge of the rectangle the point on it and the
\* point next to it on the inside (the reprojection may move either by one)
BeijingLng == 116404 * (DEG \div 1000)
BeijingLat == 39915 * (DEG \div 1000)
InputPoints ==
    { <<BeijingLng, BeijingLat>>, <<104 * DEG, 30 * DEG>>, <<0, 0>> }
    \cup { <<7366 * CENTI + d, BeijingLat>> : d \in {0, 1} }
    \cup { <<13505 * CENTI + d, BeijingLat>> : d \in {-1, 0} }
    \cup { <<BeijingLng, 386 * CENTI + d>> : d \in {0, 1} }
    \cup { <<BeijingLng, 5355 * CENTI + d>> : d \in {-1, 0} }

\* Distort, tabulated once over the points near the rectangle that the
\* model hands to it, so that the series are not summed again in every state
DistortPoints ==
    { <<p[1] + d, p[2] + e>> : p \in InputPoints \ {<<0, 0>>}, d \in 0..1, e \in 0..1 }
DistortTable == [p \in DistortPoints |-> Distort(p[1], p[2])]

\* a slip: the pass-through hands the pair back latitude first
PassThroughSwapped(lng, lat) == Return(lat, lng)

\* line 51: return lng, lat
PassThrough(lng, lat) == Return(lng, lat)

wgs84_to_gcj02(lng, lat) ==
    IF _out_of_china(lng, lat) THEN PassThrough(lng, lat)
    ELSE IF <<lng, lat>> \in DistortPoints THEN DistortTable[<<lng, lat>>]
    ELSE Distort(lng, lat)

\* ------------------------------------------------------------------------
\* The reprojection library (pyproj), line 16 and line 76
\* ------------------------------------------------------------------------
\* The operation PROJ selects for EPSG:4490 -> EPSG:4326 is a null or a
\* fixed small shift; which one is a property of the installed library,
\* fixed for the life of the process: <<shift of lng, shift of lat>>
ProjOperations == {<<0, 0>>, <<1, 1>>}

\* Transformer.from_crs(crs_from, crs_to, always_xy=...): a new object
\* (id) holding the operation the library selected
Transformer_from_crs(crs_from, crs_to, always_xy, op, id) ==
    [id |-> id, crs_from |-> crs_from, crs_to |-> crs_to,
     always_xy |-> always_xy, op |-> op]

\* transformer.transform(x, y): with always_xy the first argument and the
\* first result are the longitude; without it EPSG:4490 is read and written
\* latitude first
Transformer_transform(t, x, y) ==
    IF t.always_xy THEN <<x + t.op[1], y + t.op[2]>>
    ELSE <<x + t.op[2], y + t.op[1]>>

\* a slip: each construction selects another operation
NewTransformerDrifting(op, id) ==
    Transformer_from_crs("EPSG:4490", "EPSG:4326", TRUE, <<op[1] + id, op[2]>>, id)

\* line 16
NewTransformer(op, id) == Transformer_from_crs("EPSG:4490", "EPSG:4326", TRUE, op, id)

\* a slip: the distortion stage is handed the source pair
ReturnOnSourcePair(cgcs_lng, cgcs_lat, wgs84_lng, wgs84_lat) ==
    wgs84_to_gcj02(cgcs_lng, cgcs_lat)

\* line 77, with the locals of cgcs2000_to_gcj02 in scope
cgcs2000_to_gcj02_return(cgcs_lng, cgcs_lat, wgs84_lng, wgs84_lat) ==
    wgs84_to_gcj02(wgs84_lng, wgs84_lat)

\* lines 69-77
cgcs2000_to_gcj02(t, cgcs_lng, cgcs_lat) ==
    LET w == Transformer_transform(t, cgcs_lng, cgcs_lat)
    IN cgcs2000_to_gcj02_return(cgcs_lng, cgcs_lat, w[1], w[2])

\* ------------------------------------------------------------------------
\* Text: a Python str is a sequence of characters, each a one-token string
\* ("deg", "min" and "sec" stand for the degree, minute and second signs)
\* ------------------------------------------------------------------------
Digits == {"0", "1", "2", "3", "4", "5", "6", "7", "8", "9"}

DigitVal(c) == CHOOSE n \in 0..9 : ToString(n) = c

Max(S) == CHOOSE x \in S : \A y \in S : y <= x
Min(S) == CHOOSE x \in S : \A y \in S : x <= y

\* str.strip()
strip(s) ==
    LET keep == {i \in 1..Len(s) : s[i] # " "}
    IN IF keep = {} THEN <<>> ELSE SubSeq(s, Min(keep), Max(keep))

\* the last index of the longest run of digits (\d+) that starts at i,
\* i - 1 when s[i] is no digit
DigitsEnd(s, i) ==
    LET js == {j \in i..Len(s) : \A k \in i..j : s[k] \in Digits}
    IN IF js = {} THEN i - 1 ELSE Max(js)

\* the same for a run of non-digits ([^\d]+)
NonDigitsEnd(s, i) ==
    LET js == {j \in i..Len(s) : \A k \in i..j : s[k] \notin Digits}
    IN IF js = {} THEN i - 1 ELSE Max(js)

\* the number written by the digits s[a..b]
RECURSIVE Number(_, _, _)
Number(s, a, b) == IF b < a THEN 0 ELSE 10 * Number(s, a, b - 1) + DigitVal(s[b])

Pow10(n) == <<10, 100, 1000, 10000>>[n]

\* the fraction written by the digits s[a..b] after a point, in units of
\* 1/unit (at most four digits)
Fraction(s, a, b, unit) ==
    IF b < a THEN 0 ELSE MulDiv(unit, Number(s, a, b), Pow10(b - a + 1))

\* the end of (?:\.\d+)? tried at the index after g: g itself when absent
FractionEnd(s, g) ==
    IF g + 2 <= Len(s) /\ s[g + 1] = "." /\ DigitsEnd(s, g + 2) >= g + 2
    THEN DigitsEnd(s, g + 2) ELSE g

\* re.fullmatch(r"-?\d+(\.\d+)?", s)
FullMatchDecimal(s) ==
    LET a == IF Len(s) >= 1 /\ s[1] = "-" THEN 2 ELSE 1
        b == DigitsEnd(s, a)
    IN b >= a /\ FractionEnd(s, b) = Len(s)

\* float(s) for a string that matched, in units of 1/DEG degree
FloatOf(s) ==
    LET a == IF s[1] = "-" THEN 2 ELSE 1
        b == DigitsEnd(s, a)
        v == Number(s, a, b) * DEG + Fraction(s, b + 2, Len(s), DEG)
    IN IF s[1] = "-" THEN -v ELSE v

\* dms_re = (-?\d+)[^\d]+(\d+)[^\d]+(\d+(?:\.\d+)?) tried at index i: the
\* index ranges of its groups; every run is the longest one, since a run of
\* digits must be followed by a non-digit and the reverse
DmsAt(s, i) ==
    LET a == IF s[i] = "-" THEN i + 1 ELSE i
        b == DigitsEnd(s, a)
        c == NonDigitsEnd(s, b + 1)
        e == DigitsEnd(s, c + 1)
        f == NonDigitsEnd(s, e + 1)
        g == DigitsEnd(s, f + 1)
    IN [ok |-> b >= a /\ c >= b + 1 /\ e >= c + 1 /\ f >= e + 1 /\ g >= f + 1,
        neg |-> s[i] = "-", d |-> <<a, b>>, mm |-> <<c + 1, e>>,
        ss |-> <<f + 1, g>>, frac |-> <<g + 2, FractionEnd(s, g)>>]

\* dms_re2 = (-?\d+)[^\d]+(\d+(?:\.\d+)?) tried at index i
Dms2At(s, i) ==
    LET a == IF s[i] = "-" THEN i + 1 ELSE i
        b == DigitsEnd(s, a)
        c == NonDigitsEnd(s, b + 1)
        e == DigitsEnd(s, c + 1)
    IN [ok |-> b >= a /\ c >= b + 1 /\ e >= c + 1,
        neg |-> s[i] = "-", d |-> <<a, b>>, mm |-> <<c + 1, e>>,
        frac |-> <<e + 2, FractionEnd(s, e)>>]

\* pattern.search(s): the match at the leftmost index that has one
DmsSearch(s) == {i \in 1..Len(s) : DmsAt(s, i).ok}
Dms2Search(s) == {i \in 1..Len(s) : Dms2At(s, i).ok}

\* None, and a float in units of 1/DEG degree, as parse_coord_py returns them
NoValue == [isNone |-> TRUE, v |-> 0]
Value(x) == [isNone |-> FALSE, v |-> x]

\* lines 136-151; v is the cell text (get_val hands over a str, never None)
\* lines 143-145, m the match of dms_re
DmsValue(s, m, d) ==
    LET sign == IF m.neg /\ d > 0 THEN -1 ELSE 1
    IN sign * (d * DEG + Number(s, m.mm[1], m.mm[2]) * (DEG \div 60)
               + Number(s, m.ss[1], m.ss[2]) * (DEG \div 3600)
               + Fraction(s, m.frac[1], m.frac[2], DEG \div 3600))

\* lines 148-150, m the match of dms_re2
Dms2Value(s, m, d) ==
    LET sign == IF m.neg /\ d > 0 THEN -1 ELSE 1
    IN sign * (d * DEG + Number(s, m.mm[1], m.mm[2]) * (DEG \div 60)
               + Fraction(s, m.frac[1], m.frac[2], DEG \div 60))

\* lines 140-151, s the stripped text, with the matches of dms_re, dms_re2
ParseStripped(s, found, found2) ==
    IF s = <<>> THEN NoValue
    ELSE IF FullMatchDecimal(s) THEN Value(FloatOf(s))
    ELSE IF found # {} THEN
         Value(DmsValue(s, DmsAt(s, Min(found)),
                        Number(s, DmsAt(s, Min(found)).d[1], DmsAt(s, Min(found)).d[2])))
    ELSE IF found2 # {} THEN
         Value(Dms2Value(s, Dms2At(s, Min(found2)),
                         Number(s, Dms2At(s, Min(found2)).d[1], Dms2At(s, Min(found2)).d[2])))
    ELSE NoValue

parse_coord_py(v) == ParseStripped(strip(v), DmsSearch(strip(v)), Dms2Search(strip(v)))

\* ------------------------------------------------------------------------
\* Categories (a Chinese character is written as one token)
\* ------------------------------------------------------------------------
Other == <<"qi", "ta">>

\* lines 83-89, in the order of the dict
CATEGORY_COLORS ==
    << [key |-> <<"gu", "yi", "zhi">>, color |-> "#FF6B6B"],
       [key |-> <<"shi", "ku", "si", "ji", "shi", "ke">>, color |-> "#4ECDC4"],
       [key |-> <<"gu", "jian", "zhu">>, color |-> "#45B7D1"],
       [key |-> <<"jin", "xian", "dai", "zhong", "yao", "shi_h", "ji_t", "ji",
                  "dai", "biao", "xing", "jian", "zhu">>, color |-> "#FFA500"],
       [key |-> Other, color |-> "#95A5A6"] >>

\* key in text, for two strings
IsIn(key, text) ==
    \E i \in 1..(Len(text) - Len(key) + 1) : SubSeq(text, i, i + Len(key) - 1) = key

\* CATEGORY_COLORS[key]["color"]
ColorOf(key) ==
    CATEGORY_COLORS[CHOOSE i \in 1..Len(CATEGORY_COLORS) : CATEGORY_COLORS[i].key = key].color

\* a slip: the break of line 204 forgotten, so that the last match stays
CategoryKeyNoBreak(cat) ==
    LET hits == {i \in 1..Len(CATEGORY_COLORS) :
                    /\ CATEGORY_COLORS[i].key # Other
                    /\ cat # <<>>
                    /\ IsIn(CATEGORY_COLORS[i].key, cat)}
    IN IF hits = {} THEN Other ELSE CATEGORY_COLORS[Max(hits)].key

\* lines 200-204: the key a point is counted under
CategoryKey(cat) ==
    LET hits == {i \in 1..Len(CATEGORY_COLORS) :
                    /\ CATEGORY_COLORS[i].key # Other
                    /\ cat # <<>>
                    /\ IsIn(CATEGORY_COLORS[i].key, cat)}
    IN IF hits = {} THEN Other ELSE CATEGORY_COLORS[Min(hits)].key

\* lines 169-174, ["color"] taken
get_category_info(category_str) ==
    LET hits == {i \in 1..Len(CATEGORY_COLORS) :
                    /\ CATEGORY_COLORS[i].key # Other
                    /\ IsIn(CATEGORY_COLORS[i].key, category_str)}
    IN IF category_str = <<>> THEN ColorOf(Other)
       ELSE IF hits # {} THEN CATEGORY_COLORS[Min(hits)].color
       ELSE ColorOf(Other)

\* ------------------------------------------------------------------------
\* The table read from the uploaded file, and sheet_to_points
\* ------------------------------------------------------------------------
\* a missing cell (pd.notna is False on it)
NaN == <<"NaN">>

\* the header texts the script looks for
H_name == <<"ming", "cheng">>
H_lat == <<"wei", "du">>
H_lng == <<"jing", "du">>
H_category == <<"lei", "bie">>

\* find(keys) of detect_columns for one key, lines 154-161: the 0-based
\* index of the column, -1 when there is none.  hmap keeps, for each
\* stripped header, the index of its last column, in the order the
\* headers first appear
find(headers, k) ==
    LET h(i) == strip(headers[i])
        last(i) == Max({j \in 1..Len(headers) : h(j) = h(i)}) - 1
        exact == {i \in 1..Len(headers) : h(i) = k}
        part == {i \in 1..Len(headers) : IsIn(k, h(i))}
    IN IF exact # {} THEN last(Min(exact))
       ELSE IF part # {} THEN last(Min(part))
       ELSE -1

\* lines 153-167 (the columns that reach a point's coordinates, name and
\* category; addr, era, desc and type are copied text that nothing reads)
detect_columns(headers) ==
    [name |-> find(headers, H_name), lat |-> find(headers, H_lat),
     lng |-> find(headers, H_lng), category |-> find(headers, H_category)]

\* lines 189-191
get_val(row, cols, key) ==
    LET idx == cols[key]
    IN IF idx # -1 /\ row[idx + 1] # NaN THEN strip(row[idx + 1]) ELSE <<>>

\* category_stats[category_key] = category_stats.get(category_key, 0) + 1
Increment(stats, key) ==
    [k \in DOMAIN stats \cup {key} |->
        IF k = key THEN (IF k \in DOMAIN stats THEN stats[k] ELSE 0) + 1 ELSE stats[k]]

\* the empty dict
EmptyDict == [k \in {} |-> 0]

\* what sheet_to_points has built after a number of rows: pts and
\* category_stats, the arguments cgcs2000_to_gcj02 was invoked on, and the
\* exception that ended the loop, if any
NoPoints == [exc |-> NoExc, pts |-> <<>>, category_stats |-> EmptyDict, invoked |-> <<>>]

\* lines 198-212: the point of a row whose conversion returned gcj
AddPoint(acc, name, cat, arg, gcj) ==
    IF gcj.exc # NoExc
    THEN [acc EXCEPT !.exc = gcj.exc, !.invoked = Append(@, arg)]
    ELSE [exc |-> NoExc,
          pts |-> Append(acc.pts,
                     [name |-> name, lat |-> gcj.lat, lng |-> gcj.lng,
                      category |-> cat, color |-> get_category_info(cat)]),
          category_stats |-> Increment(acc.category_stats, CategoryKey(cat)),
          invoked |-> Append(acc.invoked, arg)]

\* a slip: "or" for "and" in line 196
ConvertIfEither(acc, name, cat, lat, lng, t) ==
    IF lat.isNone /\ lng.isNone THEN acc
    ELSE AddPoint(acc, name, cat, <<lng.v, lat.v>>, cgcs2000_to_gcj02(t, lng.v, lat.v))

\* lines 196-212, with the values of lines 193-194
Convert(acc, name, cat, lat, lng, t) ==
    IF lat.isNone \/ lng.isNone THEN acc
    ELSE AddPoint(acc, name, cat, <<lng.v, lat.v>>, cgcs2000_to_gcj02(t, lng.v, lat.v))

\* lines 193-212: one pass of the loop body, on row
LoopBody(acc, row, cols, t) ==
    IF acc.exc # NoExc THEN acc
    ELSE Convert(acc, get_val(row, cols, "name"), get_val(row, cols, "category"),
                 parse_coord_py(get_val(row, cols, "lat")),
                 parse_coord_py(get_val(row, cols, "lng")), t)

\* lines 188-212: the loop over the first n rows
RECURSIVE Loop(_, _, _, _)
Loop(rows, n, cols, t) ==
    IF n = 0 THEN NoPoints ELSE LoopBody(Loop(rows, n - 1, cols, t), rows[n], cols, t)

\* lines 176-213; df = [columns, rows]
SheetWith(df, cols, t) ==
    IF df.rows = <<>> \/ df.columns = <<>> THEN NoPoints
    ELSE IF cols.name = -1 \/ cols.lat = -1 \/ cols.lng = -1 THEN NoPoints
    ELSE Loop(df.rows, Len(df.rows), cols, t)

sheet_to_points(df, t) == SheetWith(df, detect_columns(df.columns), t)

\* ------------------------------------------------------------------------
\* The session: lines 217-238
\* ------------------------------------------------------------------------
\* Python's None, for last_uploaded_filename
None == "None"

\* the value of the file_uploader widget when no file is uploaded
NoUpload == [name |-> None, readable |-> FALSE, columns |-> <<>>, rows |-> <<>>]

\* st.session_state
Session(points, category_stats, last_uploaded_filename) ==
    [points |-> points, category_stats |-> category_stats,
     last_uploaded_filename |-> last_uploaded_filename]

\* lines 217-222
FreshSession == Session(<<>>, EmptyDict, None)

\* line 225
IsNewUpload(uploaded, ss) == uploaded.name # ss.last_uploaded_filename

\* a slip: the except branch forgets the name and keeps the points
OnParseErrorKeepsPoints(ss) == Session(ss.points, ss.category_stats, None)

\* line 235: the except branch
OnParseError(ss) == Session(<<>>, EmptyDict, None)

\* line 238: no file is uploaded any more
OnNoUpload(ss) == Session(<<>>, EmptyDict, None)

\* what line 227-228 did in a run: whether sheet_to_points was called, the
\* exception that ended the try block, and the conversions invoked
NotParsed == [parsed |-> FALSE, exc |-> NoExc, invoked |-> <<>>]

\* lines 228-235, r what sheet_to_points did
AfterParse(ss, uploaded, r) ==
    IF r.exc # NoExc
    THEN [ss |-> OnParseError(ss),
          run |-> [parsed |-> TRUE, exc |-> r.exc, invoked |-> r.invoked]]
    ELSE [ss |-> Session(r.pts, r.category_stats, uploaded.name),
          run |-> [parsed |-> TRUE, exc |-> NoExc, invoked |-> r.invoked]]

\* lines 226-235: the try block on the uploaded file; read_csv / read_excel
\* raise on a file they cannot read
TryParse(ss, uploaded, t) ==
    IF ~uploaded.readable
    THEN [ss |-> OnParseError(ss),
          run |-> [parsed |-> FALSE, exc |-> "Exception", invoked |-> <<>>]]
    ELSE AfterParse(ss, uploaded, sheet_to_points(uploaded, t))

\* lines 224-238
ScriptBody(ss, uploaded, t) ==
    IF uploaded # NoUpload
    THEN IF IsNewUpload(uploaded, ss) THEN TryParse(ss, uploaded, t)
         ELSE [ss |-> ss, run |-> NotParsed]
    ELSE IF ss.last_uploaded_filename # None
         THEN [ss |-> OnNoUpload(ss), run |-> NotParsed]
         ELSE [ss |-> ss, run |-> NotParsed]

\* ------------------------------------------------------------------------
\* The files a user uploads
\* ------------------------------------------------------------------------
Cell_39_915 == <<"3", "9", ".", "9", "1", "5">>
Cell_39d54m54s == <<"3", "9", "deg", "5", "4", "min", "5", "4", "sec">>
Cell_3_86 == <<"3", ".", "8", "6">>
Cell_116_404 == <<"1", "1", "6", ".", "4", "0", "4">>
Cell_73_66 == <<" ", "7", "3", ".", "6", "6">>
Cell_104d30m == <<"1", "0", "4", "deg", "3", "0", "min">>
Cell_abc == <<"a", "b", "c">>
Cell_NA == <<"N", "/", "A">>
Cell_blank == <<" ">>

Cat_site == <<"gu", "yi", "zhi">>
Cat_buildings == <<"ming", "qing", "gu", "jian", "zhu", "qun">>
Cat_bridge == <<"qiao", "liang">>
Cat_buildings_and_site == <<"gu", "jian", "zhu", ",", "gu", "yi", "zhi">>
Cat_other == Other

StdColumns == <<H_name, H_lat, H_lng, H_category>>

Table(columns, rows) == [readable |-> TRUE, columns |-> columns, rows |-> rows]

\* the contents of the sample files
Contents ==
    { \* every row has both coordinates
      Table(StdColumns,
            << <<<<"A">>, Cell_39_915, Cell_116_404, Cat_site>>,
               <<<<"B">>, Cell_39d54m54s, Cell_104d30m, Cat_buildings>> >>),
      \* the same sheet after an edit
      Table(StdColumns,
            << <<<<"A">>, Cell_3_86, Cell_116_404, Cat_site>>,
               <<<<"B">>, Cell_39_915, Cell_73_66, NaN>> >>),
      \* rows with a coordinate missing or unparsable between good rows
      Table(StdColumns,
            << <<<<"A">>, NaN, Cell_116_404, Cat_site>>,
               <<<<"B">>, Cell_39_915, Cell_116_404, Cat_bridge>>,
               <<<<"C">>, Cell_39_915, Cell_NA, Cat_site>> >>),
      \* a category naming two keys, a key counted twice, the key "qi ta"
      Table(StdColumns,
            << <<<<"A">>, Cell_39_915, Cell_116_404, Cat_buildings_and_site>>,
               <<<<"B">>, Cell_39_915, Cell_104d30m, Cat_site>>,
               <<<<"C">>, Cell_3_86, Cell_116_404, Cat_other>> >>),
      \* no row has both coordinates
      Table(StdColumns,
            << <<<<"A">>, Cell_abc, Cell_116_404, Cat_site>>,
               <<<<"B">>, Cell_blank, Cell_blank, Cat_site>> >>),
      \* headers with a unit added, in another order
      Table(<<H_category, H_lng \o <<"(", "E", ")">>, <<" ">> \o H_lat, H_name>>,
            << <<Cat_site, Cell_116_404, Cell_39_915, <<"A">>>> >>),
      \* no longitude column
      Table(<<H_name, H_lat, H_category>>,
            << <<<<"A">>, Cell_39_915, Cat_site>> >>),
      \* a header row and nothing else
      Table(StdColumns, <<>>),
      \* a file read_csv / read_excel raise on
      [readable |-> FALSE, columns |-> <<>>, rows |-> <<>>] }

FileNames == {"sites.csv", "sites.xlsx"}

Uploads ==
    { [name |-> n, readable |-> c.readable, columns |-> c.columns, rows |-> c.rows] :
        n \in FileNames, c \in Contents }

\* ------------------------------------------------------------------------
\* State
\* ------------------------------------------------------------------------
VARIABLES
    projOp,       \* the operation the library selects for the two datums
    transformer,  \* the module-level name `transformer` (line 16)
    calls,        \* the invocations of cgcs2000_to_gcj02 in progress
    uploaded,     \* the value of the file_uploader widget (line 131)
    points,                  \* st.session_state.points
    category_stats,          \* st.session_state.category_stats
    last_uploaded_filename,  \* st.session_state.last_uploaded_filename
    lastRun       \* what the try block of the latest script run did

sessionVars == <<uploaded, points, category_stats, last_uploaded_filename, lastRun>>
vars == <<projOp, transformer, calls, uploaded, points, category_stats,
          last_uploaded_filename, lastRun>>

\* ------------------------------------------------------------------------
\* Bounds
\* ------------------------------------------------------------------------
\* concurrent invocations of cgcs2000_to_gcj02
MaxCalls == 2
\* executions of the script body after the first
MaxRuns == 3

CallIds == 1..MaxCalls

Idle == [pc |-> "idle", arg |-> <<0, 0>>, wgs |-> <<0, 0>>, line |-> 0,
         out |-> Return(0, 0)]

\* the state after the first execution of the script in a new session: the
\* transformer is built, no file is uploaded yet
Init ==
    /\ projOp \in ProjOperations
    /\ transformer = NewTransformer(projOp, 0)
    /\ calls = [i \in CallIds |-> Idle]
    /\ uploaded = NoUpload
    /\ points = FreshSession.points
    /\ category_stats = FreshSession.category_stats
    /\ last_uploaded_filename = FreshSession.last_uploaded_filename
    /\ lastRun = NotParsed

\* ------------------------------------------------------------------------
\* The conversion, call by call
\* ------------------------------------------------------------------------
\* the script body runs again (a Streamlit rerun): line 16 is executed again
ScriptRun ==
    /\ transformer.id < MaxRuns
    /\ transformer' = NewTransformer(projOp, transformer.id + 1)
    /\ UNCHANGED <<projOp, calls>>
    /\ UNCHANGED sessionVars

\* a caller invokes cgcs2000_to_gcj02(lng, lat)                  (line 69)
Call(i) ==
    /\ calls[i].pc = "idle"
    /\ \E p \in InputPoints :
         calls' = [calls EXCEPT ![i] = [Idle EXCEPT !.pc = "l76", !.arg = p]]
    /\ UNCHANGED <<projOp, transformer>>
    /\ UNCHANGED sessionVars

\* wgs84_lng, wgs84_lat = transformer.transform(cgcs_lng, cgcs_lat) (line 76)
Reproject(i) ==
    /\ calls[i].pc = "l76"
    /\ calls' = [calls EXCEPT ![i].pc = "l77",
                              ![i].wgs = Transformer_transform(transformer,
                                             calls[i].arg[1], calls[i].arg[2])]
    /\ UNCHANGED <<projOp, transformer>>
    /\ UNCHANGED sessionVars

\* the line of wgs84_to_gcj02 whose return ends the call on (lng, lat)
ReturnLine(lng, lat) == IF _out_of_china(lng, lat) THEN 51 ELSE 67

\* return wgs84_to_gcj02(wgs84_lng, wgs84_lat)                    (line 77)
Distortor(i) ==
    /\ calls[i].pc = "l77"
    /\ LET c == calls[i]
           r == cgcs2000_to_gcj02_return(c.arg[1], c.arg[2], c.wgs[1], c.wgs[2])
       IN calls' = [calls EXCEPT ![i].pc = IF r.exc = NoExc THEN "returned" ELSE "raised",
                                 ![i].line = ReturnLine(c.wgs[1], c.wgs[2]),
                                 ![i].out = r]
    /\ UNCHANGED <<projOp, transformer>>
    /\ UNCHANGED sessionVars

\* the caller takes the result; the frame is gone
Finish(i) ==
    /\ calls[i].pc \in {"returned", "raised"}
    /\ calls' = [calls EXCEPT ![i] = Idle]
    /\ UNCHANGED <<projOp, transformer>>
    /\ UNCHANGED sessionVars

Next ==
    \/ ScriptRun
    \/ \E i \in CallIds : Call(i)
    \/ \E i \in CallIds : Reproject(i)
    \/ \E i \in CallIds : Distortor(i)
    \/ \E i \in CallIds : Finish(i)

Spec == Init /\ [][Next]_vars

\* ------------------------------------------------------------------------
\* The session, script run by script run
\* ------------------------------------------------------------------------
\* the session state and the trace a script run leaves
RunEnds(r) ==
    /\ points' = r.ss.points
    /\ category_stats' = r.ss.category_stats
    /\ last_uploaded_filename' = r.ss.last_uploaded_filename
    /\ lastRun' = r.run

\* one execution of the script with the widget holding file: line 16 builds
\* the transformer again, then lines 217-238 run
Rerun(file) ==
    /\ transformer.id < MaxRuns
    /\ transformer' = NewTransformer(projOp, transformer.id + 1)
    /\ uploaded' = file
    /\ RunEnds(ScriptBody(Session(points, category_stats, last_uploaded_filename),
                          file, NewTransformer(projOp, transformer.id + 1)))
    /\ UNCHANGED <<projOp, calls>>

\* the user uploads a file, or replaces the uploaded one
Upload == \E f \in Uploads : f # uploaded /\ Rerun(f)

\* the user removes the uploaded file
Remove == uploaded # NoUpload /\ Rerun(NoUpload)

\* the user touches another widget: the script runs with the same file
Interact == Rerun(uploaded)

NextApp == Upload \/ Remove \/ Interact

SpecApp == Init /\ [][NextApp]_vars

\* ------------------------------------------------------------------------
\* Properties
\* ------------------------------------------------------------------------
\* 73.66 < lng < 135.05 and 3.86 < lat < 53.55, for a pair <<lng, lat>>
StrictlyInside(p) ==
    /\ 7366 * CENTI < p[1] /\ p[1] < 13505 * CENTI
    /\ 386 * CENTI < p[2] /\ p[2] < 5355 * CENTI

\* the invocation has come back from wgs84_to_gcj02
Ended(i) == calls[i].pc \in {"returned", "raised"}

\* C1: the offset branch (the return of line 67) is taken if and only if the
\* point handed to wgs84_to_gcj02 lies strictly inside the rectangle; a point
\* on an edge takes the pass-through of line 51 and comes back unchanged
C1_DistortionIffStrictlyInside ==
    \A i \in CallIds :
        Ended(i) =>
            IF StrictlyInside(calls[i].wgs)
            THEN calls[i].line = 67 /\ calls[i].out = DistortTable[calls[i].wgs]
            ELSE calls[i].line = 51 /\ calls[i].out = Return(calls[i].wgs[1], calls[i].wgs[2])

\* a call whose point lies exactly on the west edge has come back
C1_Witness ==
    \E i \in CallIds :
        /\ calls[i].pc = "returned"
        /\ calls[i].wgs = <<7366 * CENTI, BeijingLat>>
        /\ calls[i].line = 51

\* C2: for a point with lng not in (73.66, 135.05) or lat not in (3.86, 53.55)
\* wgs84_to_gcj02 returns the input pair itself, longitude first
C2_OutsideIsIdentity ==
    \A i \in CallIds :
        (Ended(i) /\ ~StrictlyInside(calls[i].wgs)) =>
            /\ calls[i].pc = "returned"
            /\ calls[i].out.lng = calls[i].wgs[1]
            /\ calls[i].out.lat = calls[i].wgs[2]

\* a call on a point east of the rectangle has come back
C2_Witness ==
    \E i \in CallIds :
        /\ calls[i].pc = "returned"
        /\ calls[i].wgs[1] >= 13505 * CENTI
        /\ calls[i].wgs[1] # calls[i].wgs[2]

\* the pair the reprojection makes of a source pair: longitude first
Reprojected(p) == <<p[1] + projOp[1], p[2] + projOp[2]>>

\* C3: cgcs2000_to_gcj02 returns what the distortion stage makes of the
\* reprojected pair, longitude first throughout, and the bounding test is
\* made on the reprojected pair
C3_CompositeIsReprojectThenDistort ==
    \A i \in CallIds :
        Ended(i) =>
            /\ calls[i].wgs = Reprojected(calls[i].arg)
            /\ calls[i].out = IF StrictlyInside(Reprojected(calls[i].arg))
                              THEN DistortTable[Reprojected(calls[i].arg)]
                              ELSE Return(Reprojected(calls[i].arg)[1],
                                          Reprojected(calls[i].arg)[2])

\* a call has come back whose source pair is outside the rectangle and whose
\* reprojected pair is inside it
C3_Witness ==
    \E i \in CallIds :
        /\ calls[i].pc = "returned"
        /\ ~StrictlyInside(calls[i].arg)
        /\ StrictlyInside(calls[i].wgs)
        /\ calls[i].line = 67

\* magic is positive and cos(lat) is not zero on every twentieth of a degree
\* of latitude between 3.86 and 53.55
ScalingDefinedOnGrid ==
    \A k \in 78..1070 :
        /\ Magic(k * 5 * CENTI) > 0
        /\ CosPi(k * 5 * CENTI, 180 * DEG) > 0

\* magic and cos(rad_lat) of lines 58 and 62 at the points handed to Distort
ScalingTable ==
    [p \in DistortPoints |-> [magic |-> Magic(p[2]), cos |-> CosPi(p[2], 180 * DEG)]]

\* C4: no invocation of the conversion ends in an exception, and inside the
\* rectangle magic is positive and cos(lat) is not zero, so that the square
\* root and the two divisions of the scaling step are defined
C4_ConversionNeverRaises ==
    /\ ScalingDefinedOnGrid
    /\ \A i \in CallIds :
        /\ calls[i].pc # "raised"
        /\ (Ended(i) /\ StrictlyInside(calls[i].wgs)) =>
              /\ calls[i].out.exc = NoExc
              /\ ScalingTable[calls[i].wgs].magic > 0
              /\ ScalingTable[calls[i].wgs].cos # 0

\* a call on a point just inside the north edge has come back from line 67
C4_Witness ==
    \E i \in CallIds :
        /\ calls[i].pc = "returned"
        /\ calls[i].line = 67
        /\ calls[i].wgs[2] = 5355 * CENTI - 1

\* both correction functions return on the offsets (lng, lat), and the
\* square root each takes is the one of the offset -lng
SqrtAsOfPositive(lng, lat) ==
    /\ _transform_lat(lng, lat).exc = NoExc
    /\ _transform_lng(lng, lat).exc = NoExc
    /\ _transform_lat_sqrt(lng) = _transform_lat_sqrt(-lng)
    /\ _transform_lng_sqrt(lng) = _transform_lng_sqrt(-lng)

\* the same at the points handed to Distort, with the offsets of lines 53-54
SqrtTable ==
    [p \in DistortPoints |-> SqrtAsOfPositive(p[1] - 105 * DEG, p[2] - 35 * DEG)]

\* C5: for a point inside the rectangle west of 105 degrees both correction
\* functions return (no domain error), and the square root each takes is the
\* one of the offset of the same size and positive sign
C5_SqrtOfAbsoluteOffset ==
    \A i \in CallIds :
        (Ended(i) /\ StrictlyInside(calls[i].wgs) /\ calls[i].wgs[1] < 105 * DEG) =>
            /\ SqrtTable[calls[i].wgs]
            /\ calls[i].pc = "returned"

\* a call on the point (104, 30) has come back
C5_Witness ==
    \E i \in CallIds :
        /\ calls[i].pc = "returned"
        /\ calls[i].line = 67
        /\ calls[i].wgs[1] < 105 * DEG
        /\ calls[i].wgs[2] < 35 * DEG

\* C6: two invocations on the same arguments come back with the same result,
\* whatever ran between them and however they were interleaved
C6_Deterministic ==
    \A i, j \in CallIds :
        (Ended(i) /\ Ended(j) /\ calls[i].arg = calls[j].arg) =>
            /\ calls[i].pc = calls[j].pc
            /\ calls[i].out = calls[j].out

\* two invocations on the same point inside the rectangle have both come
\* back, and the script has run again since the process started
C6_Witness ==
    \E i, j \in CallIds :
        /\ i # j
        /\ calls[i].pc = "returned" /\ calls[j].pc = "returned"
        /\ calls[i].arg = calls[j].arg
        /\ calls[i].line = 67
        /\ transformer.id > 0

\* C7: the transform object is built once and never replaced: over any
\* sequence of script runs and conversions every step leaves the module-level
\* name `transformer` bound to the same object
C7_BuiltOnceNeverReplaced == [][transformer' = transformer]_vars

\* the points sheet_to_points makes of the file the widget holds
CurrentPoints ==
    IF uploaded = NoUpload \/ ~uploaded.readable THEN <<>>
    ELSE sheet_to_points(uploaded, transformer).pts

\* C8: after every script run the displayed points are the conversion of
\* the records of the file that is uploaded now
C8_DisplayedIsCurrentFile == points = CurrentPoints

\* the rows of the uploaded table on which both coordinates parse
RowLat(i) == parse_coord_py(get_val(uploaded.rows[i], detect_columns(uploaded.columns), "lat"))
RowLng(i) == parse_coord_py(get_val(uploaded.rows[i], detect_columns(uploaded.columns), "lng"))
ValidRows == {i \in 1..Len(uploaded.rows) : ~RowLat(i).isNone /\ ~RowLng(i).isNone}
\* the k-th of them
ValidRow(k) == CHOOSE i \in ValidRows : Cardinality({j \in ValidRows : j <= i}) = k

\* the number of points counted in a category_stats
Counted(stats) == Cardinality({<<k, n>> \in (DOMAIN stats) \X (1..8) : n <= stats[k]})

\* the latest run called sheet_to_points on a table with the three columns
ParsedRows ==
    /\ lastRun.parsed
    /\ detect_columns(uploaded.columns).name # -1
    /\ detect_columns(uploaded.columns).lat # -1
    /\ detect_columns(uploaded.columns).lng # -1

\* C9: sheet_to_points invokes the conversion on exactly the rows whose
\* latitude and longitude both parsed, in order; every other row leaves no
\* point and no count, and every point holds the pair the conversion returned
C9_ConvertedIffBothParsed ==
    ParsedRows =>
        /\ lastRun.exc = NoExc
        /\ Len(lastRun.invoked) = Cardinality(ValidRows)
        /\ Len(points) = Cardinality(ValidRows)
        /\ Counted(category_stats) = Cardinality(ValidRows)
        /\ \A k \in 1..Cardinality(ValidRows) :
              /\ lastRun.invoked[k] = <<RowLng(ValidRow(k)).v, RowLat(ValidRow(k)).v>>
              /\ points[k].lng = cgcs2000_to_gcj02(transformer, lastRun.invoked[k][1],
                                                   lastRun.invoked[k][2]).lng
              /\ points[k].lat = cgcs2000_to_gcj02(transformer, lastRun.invoked[k][1],
                                                   lastRun.invoked[k][2]).lat
              /\ points[k].name = get_val(uploaded.rows[ValidRow(k)],
                                          detect_columns(uploaded.columns), "name")

\* a table was parsed in which a row between two others was left out
C9_Witness ==
    /\ ParsedRows
    /\ Len(uploaded.rows) = 3
    /\ ValidRows = {2}
    /\ Len(points) = 1

\* C10: at the end of every script run, no remembered file name means no
\* points and no counts, and no uploaded file means all three are reset
C10_SessionStateConsistent ==
    /\ last_uploaded_filename = None => (points = <<>> /\ category_stats = EmptyDict)
    /\ uploaded = NoUpload =>
          /\ points = <<>>
          /\ category_stats = EmptyDict
          /\ last_uploaded_filename = None

\* a file that could not be read was uploaded in place of another one
C10_Witness ==
    /\ uploaded # NoUpload
    /\ lastRun.exc # NoExc
    /\ last_uploaded_filename = None
    /\ transformer.id >= 2

\* the keys of CATEGORY_COLORS
CategoryKeys == {CATEGORY_COLORS[i].key : i \in 1..Len(CATEGORY_COLORS)}

\* key is the first key of CATEGORY_COLORS other than "qi ta" that is a
\* substring of cat, or it is "qi ta" and no other key is a substring of cat
IsFirstKeyIn(key, cat) ==
    \E i \in 1..Len(CATEGORY_COLORS) :
        /\ CATEGORY_COLORS[i].key = key
        /\ \/ /\ key # Other
              /\ IsIn(key, cat)
              /\ \A j \in 1..(i - 1) :
                    CATEGORY_COLORS[j].key = Other \/ ~IsIn(CATEGORY_COLORS[j].key, cat)
           \/ /\ key = Other
              /\ \A j \in 1..Len(CATEGORY_COLORS) :
                    CATEGORY_COLORS[j].key = Other \/ ~IsIn(CATEGORY_COLORS[j].key, cat)

\* the points counted under key
PointsUnder(key) == {n \in 1..Len(points) : IsFirstKeyIn(key, points[n].category)}

\* C11: the counts of category_stats sum to the number of points; every key
\* of category_stats is a key of CATEGORY_COLORS and has a count of at least
\* one; every point is counted under exactly one key, the first key of
\* CATEGORY_COLORS other than "qi ta" that is a substring of its category, or
\* "qi ta" when none is, and its colour is the colour of that key
C11_StatsCountPointsByFirstKey ==
    /\ Counted(category_stats) = Len(points)
    /\ \A k \in DOMAIN category_stats :
          /\ k \in CategoryKeys
          /\ category_stats[k] >= 1
          /\ category_stats[k] = Cardinality(PointsUnder(k))
    /\ \A n \in 1..Len(points) :
          /\ Cardinality({k \in CategoryKeys : IsFirstKeyIn(k, points[n].category)}) = 1
          /\ \E k \in DOMAIN category_stats :
                /\ IsFirstKeyIn(k, points[n].category)
                /\ points[n].color = ColorOf(k)

\* a table was parsed in which a category names two keys, the later key of
\* CATEGORY_COLORS first, a key is counted twice and a point is counted
\* under "qi ta"
C11_Witness ==
    /\ lastRun.parsed
    /\ Len(points) = 3
    /\ points[1].category = Cat_buildings_and_site
    /\ DOMAIN category_stats = {Cat_site, Other}
    /\ category_stats[Cat_site] = 2
====
